---- MODULE Spec2Model ----
(***************************************************************************)
(* A model of package duration (src/duration.go): ISO8601 durations parsed *)
(* into a time.Duration (int64 nanoseconds) and formatted back.            *)
(*                                                                         *)
(* Representation.  TLC's integers are 32 bits wide, an int64 nanosecond   *)
(* count is not, so a magnitude is kept in mixed radix as a record         *)
(*     [dy, sc, ns]   standing for   (dy * 86400 + sc) * 10^9 + ns         *)
(* with 0 <= sc < 86400 and 0 <= ns < 10^9 (dy carries the sign).  Strings *)
(* are sequences of one-character strings.  A float64 that the code holds  *)
(* is represented exactly: whole-valued ones by the integer, Weeks() by a  *)
(* numerator over 7, Seconds() by the integer R with Seconds() = R / 1e9   *)
(* correctly rounded, and the parsed seconds field by a binary fraction    *)
(* m / 2^s whose 53-bit mantissa is a little-endian sequence of limbs.     *)
(***************************************************************************)
EXTENDS Integers, Sequences, FiniteSets

(***************************************************************************)
(* Mixed-radix int64 arithmetic.                                           *)
(***************************************************************************)
SecPerDay == 86400
NanoPerSec == 1000000000

Mag(dy, sc, ns) == [dy |-> dy, sc |-> sc, ns |-> ns]

\* Carries ns into sc and sc into dy (floor division: TLA+'s \div and %).
Norm(dy, sc, ns) ==
  LET s1 == sc + (ns \div NanoPerSec)
  IN  Mag(dy + (s1 \div SecPerDay), s1 % SecPerDay, ns % NanoPerSec)

MagZero == Mag(0, 0, 0)
MagAdd(a, b) == Norm(a.dy + b.dy, a.sc + b.sc, a.ns + b.ns)
MagNeg(a) == Norm(-a.dy, -a.sc, -a.ns)
MagSub(a, b) == MagAdd(a, MagNeg(b))
MagLt(a, b) ==
  \/ a.dy < b.dy
  \/ a.dy = b.dy /\ a.sc < b.sc
  \/ a.dy = b.dy /\ a.sc = b.sc /\ a.ns < b.ns
MagLe(a, b) == a = b \/ MagLt(a, b)
MagIsNeg(a) == a.dy < 0
MagAbs(a) == IF MagIsNeg(a) THEN MagNeg(a) ELSE a

\* math.MaxInt64, math.MinInt64 and 2^64 nanoseconds.
MaxInt64 == Mag(106751, 85636, 854775807)
MinInt64 == Mag(-106752, 763, 145224192)
TwoTo64 == Mag(213503, 84873, 709551616)
InInt64(a) == MagLe(MinInt64, a) /\ MagLe(a, MaxInt64)

\* One int64 operation's wrap-around: the operands are int64 values, so the
\* exact result of + is off by at most one 2^64.
Wrap64(a) ==
  IF MagLt(MaxInt64, a) THEN MagSub(a, TwoTo64)
  ELSE IF MagLt(a, MinInt64) THEN MagAdd(a, TwoTo64)
  ELSE a

\* n * u in the integers, for a unit u whose seconds divide a day; any
\* nanoseconds of u are multiplied by an n below 1000.
MulExact(n, u) ==
  LET per == IF u.sc = 0 THEN 1 ELSE SecPerDay \div u.sc
  IN  Norm(n * u.dy + (IF u.sc = 0 THEN 0 ELSE n \div per),
           IF u.sc = 0 THEN 0 ELSE (n % per) * u.sc,
           n * u.ns)

\* q * 2^64 nanoseconds, q in 0..3000.
TimesTwoTo64(q) ==
  Norm(q * 213503, q * 84873 + ((q * 709551) \div 1000000),
       ((q * 709551) % 1000000) * 1000 + q * 616)

\* A non-negative integer reduced into int64, as wrapping arithmetic
\* leaves it: the one value in range that differs by a multiple of 2^64.
Reduce64(x) ==
  LET q0 == (x.dy + 106752) \div 213504
      q == CHOOSE q \in {q0 - 1, q0, q0 + 1} :
             q >= 0 /\ InInt64(MagSub(x, TimesTwoTo64(q)))
  IN  MagSub(x, TimesTwoTo64(q))

\* Go's int64 + and * on time.Duration (wrapping; n a non-negative int).
Add64(a, b) == Wrap64(MagAdd(a, b))
Mul64(n, u) == Reduce64(MulExact(n, u))

(***************************************************************************)
(* The package's constants (time.Duration values).                         *)
(***************************************************************************)
Nanosecond == Mag(0, 0, 1)
Microsecond == Mag(0, 0, 1000)
Millisecond == Mag(0, 0, 1000000)
Second == Mag(0, 1, 0)
Minute == Mag(0, 60, 0)
Hour == Mag(0, 3600, 0)
Day == Mul64(24, Hour)
Week == Mul64(7, Day)
Month == Mul64(30, Day)
Year == Mul64(365, Day)

\* Go's truncated int64 division d / u and remainder, for u a whole number
\* of seconds that divides a day (Minute, Hour, Day) or of days (Year).
QuoAbs(a, u) ==
  IF u.dy > 0 THEN a.dy \div u.dy
  ELSE a.dy * (SecPerDay \div u.sc) + (a.sc \div u.sc)
Quo(d, u) == IF MagIsNeg(d) THEN -QuoAbs(MagNeg(d), u) ELSE QuoAbs(d, u)

\* math.Mod(x, y) on whole-valued floats: the result has the sign of x.
Mod(x, y) == IF x < 0 THEN -((-x) % y) ELSE x % y

(***************************************************************************)
(* float64 conversions of an int64 nanosecond count.                       *)
(***************************************************************************)
\* 2^j nanoseconds, j in 53..63.
TwoTo(j) ==
  CASE j = 53 -> Mag(104, 21599, 254740992)
    [] j = 54 -> Mag(208, 43198, 509481984)
    [] j = 55 -> Mag(416, 86397, 18963968)
    [] j = 56 -> Mag(833, 86394, 37927936)
    [] j = 57 -> Mag(1667, 86388, 75855872)
    [] j = 58 -> Mag(3335, 86376, 151711744)
    [] j = 59 -> Mag(6671, 86352, 303423488)
    [] j = 60 -> Mag(13343, 86304, 606846976)
    [] j = 61 -> Mag(26687, 86209, 213693952)
    [] j = 62 -> Mag(53375, 86018, 427387904)
    [] j = 63 -> Mag(106751, 85636, 854775808)

Pow2(k) ==
  <<1, 2, 4, 8, 16, 32, 64, 128, 256, 512, 1024, 2048, 4096, 8192, 16384, 32768>>[k + 1]

\* a mod 2^11 for a >= 0: 10^9 = 512 (mod 2048), and 86400 = 0 (mod 4).
Low11(a) == (512 * (a.sc % 4) + (a.ns % 2048)) % 2048

\* float64(d.Nanoseconds()) for a = |d|: a rounded to 53 significant bits,
\* ties to even.  Below 2^53 the conversion is exact.
Float64OfNanos(a) ==
  LET k == Cardinality({j \in 53..63 : MagLe(TwoTo(j), a)})
      sp == Pow2(k)
      r == Low11(a) % sp
      odd == (Low11(a) \div sp) % 2 = 1
      up == 2 * r > sp \/ (2 * r = sp /\ odd)
  IN  IF k = 0 THEN a
      ELSE MagAdd(a, Mag(0, 0, (IF up THEN sp ELSE 0) - r))

\* math.Trunc(d.Duration.Minutes()) for a = |d|.  time.Duration.Minutes is
\*   float64(d / Minute) + float64(d % Minute) / (60 * 1e9):
\* the sum is rounded to the spacing of the doubles at min = d / Minute, and
\* reaches min + 1 when d % Minute is within RoundUpGap(min) nanoseconds of
\* a whole minute (29296875 / 2^(42 - e) rounded down, 2^e <= min < 2^(e+1)).
RoundUpGap(min) ==
  IF min >= 134217728 THEN 894
  ELSE IF min >= 67108864 THEN 447
  ELSE IF min >= 33554432 THEN 223
  ELSE IF min >= 16777216 THEN 111
  ELSE IF min >= 8388608 THEN 55
  ELSE IF min >= 4194304 THEN 27
  ELSE IF min >= 2097152 THEN 13
  ELSE IF min >= 1048576 THEN 6
  ELSE IF min >= 524288 THEN 3
  ELSE IF min >= 262144 THEN 1
  ELSE 0
TruncMinutes(a) ==
  LET min == QuoAbs(a, Minute)
  IN  IF a.sc % 60 = 59 /\ NanoPerSec - a.ns <= RoundUpGap(min)
      THEN min + 1 ELSE min

(***************************************************************************)
(* The accessors.  Years, Days, Hours and Minutes are whole-valued floats  *)
(* (an int64 quotient below 2^53 converts exactly); Weeks is a numerator   *)
(* over 7; Seconds is R, in nanoseconds, for the float64 nearest R / 1e9.  *)
(***************************************************************************)
Years(d) == Quo(d, Year)

Days(d) == Mod(Quo(d, Day), QuoAbs(Year, Day))

\* [num, den]: the float x / y, or 0 when math.Mod(x, y) > 0.
Weeks(d) ==
  LET x == Days(d)
      y == QuoAbs(Week, Day)
  IN  IF Mod(x, y) > 0 THEN [num |-> 0, den |-> y] ELSE [num |-> x, den |-> y]

Hours(d) == Mod(Quo(d, Hour), QuoAbs(Day, Hour))

Minutes(d) == Mod(Quo(d, Minute), QuoAbs(Hour, Minute))

Seconds(d) ==
  LET a == MagAbs(d)
      R == MagSub(Float64OfNanos(a), MulExact(TruncMinutes(a), Minute))
  IN  IF MagIsNeg(d) THEN MagNeg(R) ELSE R

IsZero(d) == d = MagZero

\* time.Duration(f) of a float: truncation toward zero.
TruncRatio(w) == IF w.num < 0 THEN -((-w.num) \div w.den) ELSE w.num \div w.den

IsWeeksOnly(d) ==
  LET w == TruncRatio(Weeks(d))
      p == IF w < 0 THEN MagNeg(Mul64(-w, Week)) ELSE Mul64(w, Week)
  IN  p = d

HasTimePart(d) == Hours(d) # 0 \/ Minutes(d) # 0 \/ Seconds(d) # MagZero

ToDuration(d) == d

(***************************************************************************)
(* text/template's printing of a float64 (fmt's %v: strconv's 'g' format   *)
(* with the shortest digits that read back as the same float64, and the    *)
(* exponent form when the decimal exponent is below -4; the upper threshold *)
(* is never reached by the numbers printed here, all below 10^6).          *)
(***************************************************************************)
DigitChars == <<"0", "1", "2", "3", "4", "5", "6", "7", "8", "9">>

Pow10(k) ==
  <<1, 10, 100, 1000, 10000, 100000, 1000000, 10000000, 100000000, 1000000000>>[k + 1]

\* n as exactly w digits, zero-padded on the left (n < 10^w, w <= 10).
Padded(n, w) == [i \in 1..w |-> DigitChars[((n \div Pow10(w - i)) % 10) + 1]]

\* The decimal digits of n, 0 <= n < 2^31.
NumDigits(n) == 1 + Cardinality({k \in 1..9 : n >= Pow10(k)})
Digits(n) == Padded(n, NumDigits(n))

\* s without its trailing "0"s.
StripZeros(s) ==
  SubSeq(s, 1, Cardinality({i \in 1..Len(s) : \E j \in i..Len(s) : s[j] # "0"}))

\* A whole-valued float of magnitude below 10^6 (every Years, Days, Weeks,
\* Hours and Minutes is): its decimal digits, with a sign when negative.
FmtWhole(x) == IF x < 0 THEN <<"-">> \o Digits(-x) ELSE Digits(x)

\* Weeks() is printed only under IsWeeksOnly, when it is a whole number.
FmtRatio(w) == FmtWhole(TruncRatio(w))

\* The float64 nearest R / 1e9, |R| < 2^37: a decimal of at most 12
\* significant digits is the shortest that reads back as its float64, so
\* the digits printed are those of R / 10^9 itself.
FmtSeconds(R) ==
  LET a == MagAbs(R)
      secs == a.dy * SecPerDay + a.sc
      sign == IF MagIsNeg(R) THEN <<"-">> ELSE <<>>
      frac == StripZeros(Padded(a.ns, 9))
      sig == StripZeros(Digits(a.ns))
      exp == 10 - Len(Digits(a.ns))
  IN  IF secs = 0 /\ a.ns > 0 /\ a.ns < 100000
      THEN sign \o <<sig[1]>>
           \o (IF Len(sig) > 1 THEN <<".">> \o SubSeq(sig, 2, Len(sig)) ELSE <<>>)
           \o <<"e", "-">> \o Padded(exp, 2)
      ELSE sign \o Digits(secs) \o (IF frac = <<>> THEN <<>> ELSE <<".">> \o frac)

(***************************************************************************)
(* The formatter.                                                          *)
(***************************************************************************)
Zero == <<"P", "0", "D">>

\* The template, executed on d: {{if X}} is true of a non-zero number, and
\* {{if and .Weeks .IsWeeksOnly}} of a non-zero Weeks under IsWeeksOnly.
tmpl(d) ==
  <<"P">> \o
  IF IsZero(d) THEN <<"0", "D">>
  ELSE IF Weeks(d).num # 0 /\ IsWeeksOnly(d) THEN FmtRatio(Weeks(d)) \o <<"W">>
  ELSE (IF Years(d) # 0 THEN FmtWhole(Years(d)) \o <<"Y">> ELSE <<>>)
    \o (IF Days(d) # 0 THEN FmtWhole(Days(d)) \o <<"D">> ELSE <<>>)
    \o (IF HasTimePart(d)
        THEN <<"T">>
          \o (IF Hours(d) # 0 THEN FmtWhole(Hours(d)) \o <<"H">> ELSE <<>>)
          \o (IF Minutes(d) # 0 THEN FmtWhole(Minutes(d)) \o <<"M">> ELSE <<>>)
          \o (IF Seconds(d) # MagZero THEN FmtSeconds(Seconds(d)) \o <<"S">> ELSE <<>>)
        ELSE <<>>)

\* tmpl.Execute never fails on a *Duration, so String never panics.
String(d) == tmpl(d)

(***************************************************************************)
(* Natural numbers wider than TLC's integers: little-endian sequences of   *)
(* limbs in base 2^15, without high zero limbs (<<>> is 0).  They carry    *)
(* the 53-bit mantissas of the float64 arithmetic on the seconds field.    *)
(***************************************************************************)
Base == Pow2(15)

BTrim(x) ==
  SubSeq(x, 1, Cardinality({i \in 1..Len(x) : \E j \in i..Len(x) : x[j] # 0}))

BFromSmall(n) == BTrim(<<n % Base, n \div Base>>)

\* x < 2^30 as an integer.
BToInt(x) ==
  IF x = <<>> THEN 0 ELSE IF Len(x) = 1 THEN x[1] ELSE x[1] + Base * x[2]

\* x * c + a, for 0 <= a, c <= 10000.
RECURSIVE BMulAdd(_, _, _)
BMulAdd(x, c, a) ==
  IF x = <<>> THEN BFromSmall(a)
  ELSE LET t == x[1] * c + a
       IN  <<t % Base>> \o BMulAdd(Tail(x), c, t \div Base)

\* Quotient and remainder of x by c, 0 < c <= 16384.
RECURSIVE BDivRaw(_, _)
BDivRaw(x, c) ==
  IF x = <<>> THEN [q |-> <<>>, r |-> 0]
  ELSE LET hi == BDivRaw(Tail(x), c)
           t == hi.r * Base + x[1]
       IN  [q |-> <<t \div c>> \o hi.q, r |-> t % c]
BDivSmall(x, c) == LET d == BDivRaw(x, c) IN [q |-> BTrim(d.q), r |-> d.r]

BitLen15(l) == Cardinality({k \in 0..14 : l >= Pow2(k)})
BBitLen(x) == IF x = <<>> THEN 0 ELSE 15 * (Len(x) - 1) + BitLen15(x[Len(x)])

\* x * 2^s, floor(x / 2^s) and x mod 2^s.
BShl(x, s) ==
  IF x = <<>> THEN <<>>
  ELSE BTrim(BMulAdd([i \in 1..(s \div 15) |-> 0] \o x, Pow2(s % 15), 0))
BShr(x, s) ==
  IF s \div 15 >= Len(x) THEN <<>>
  ELSE BDivSmall(SubSeq(x, (s \div 15) + 1, Len(x)), Pow2(s % 15)).q
BLow(x, s) ==
  IF s \div 15 >= Len(x) THEN x
  ELSE BTrim(SubSeq(x, 1, s \div 15) \o <<x[(s \div 15) + 1] % Pow2(s % 15)>>)

BIsOdd(x) == x # <<>> /\ x[1] % 2 = 1

(***************************************************************************)
(* strconv.ParseFloat on a run of digits and dots, and the float64         *)
(* arithmetic of the seconds case.  A float64 is [m, s]: the value m / 2^s *)
(* with m below 2^53 (a whole number has s = 0).                           *)
(***************************************************************************)
IsDigit(c) == c \in {DigitChars[i] : i \in 1..10}
DigitVal(c) == CHOOSE n \in 0..9 : DigitChars[n + 1] = c

\* The number a run of at most 9 digits writes.
RECURSIVE SmallVal(_)
SmallVal(ds) ==
  IF ds = <<>> THEN 0
  ELSE 10 * SmallVal(SubSeq(ds, 1, Len(ds) - 1)) + DigitVal(ds[Len(ds)])

RECURSIVE BFromDigits(_)
BFromDigits(ds) ==
  IF Len(ds) <= 4 THEN BFromSmall(SmallVal(ds))
  ELSE BMulAdd(BFromDigits(SubSeq(ds, 1, Len(ds) - 4)), 10000,
               SmallVal(SubSeq(ds, Len(ds) - 3, Len(ds))))

\* floor(A / 10^k) with what the rounding needs to know of the remainder:
\* cmp is -1, 0 or 1 as the remainder is below, at or above half of 10^k.
RECURSIVE BDivPow10(_, _)
BDivPow10(A, k) ==
  IF k <= 4
  THEN LET d == BDivSmall(A, Pow10(k))
       IN  [q |-> d.q, top |-> d.r, half |-> Pow10(k) \div 2, low |-> FALSE]
  ELSE LET d == BDivSmall(A, 10000)
           h == BDivPow10(d.q, k - 4)
       IN  [q |-> h.q, top |-> h.top, half |-> h.half, low |-> h.low \/ d.r # 0]

\* Round to nearest, ties to even, of q with the remainder's comparison.
RoundEven(q, above, tie) ==
  IF above \/ (tie /\ BIsOdd(q)) THEN BMulAdd(q, 1, 1) ELSE q

\* The bit length of 10^k.
BitLenPow10(k) ==
  <<1, 4, 7, 10, 14, 17, 20, 24, 27, 30, 34, 37, 40, 44, 47, 50, 54, 57, 60>>[k + 1]

\* The float64 nearest N / 10^k (strconv.ParseFloat rounds correctly), for
\* 0 < k <= 18 and N / 10^k below 2^52: the quotient of N * 2^s by 10^k
\* with s chosen to give it 53 bits.
RoundQuot(dv, s) ==
  [m |-> RoundEven(dv.q, dv.top > dv.half \/ (dv.top = dv.half /\ dv.low),
                   dv.top = dv.half /\ ~dv.low),
   s |-> s]
ScaledQuot(N, k, s) == BDivPow10(BShl(N, s), k)
FitQuot(N, k, s1, d1) ==
  IF BBitLen(d1.q) > 53 THEN RoundQuot(ScaledQuot(N, k, s1 - 1), s1 - 1)
  ELSE RoundQuot(d1, s1)
DecToFloat(N, k) ==
  IF N = <<>> THEN [m |-> <<>>, s |-> 0]
  ELSE FitQuot(N, k, 53 + BitLenPow10(k) - BBitLen(N),
               ScaledQuot(N, k, 53 + BitLenPow10(k) - BBitLen(N)))

\* math.Trunc(val), below 2^30, and val - math.Trunc(val) (exact).
FloatTrunc(v) == BToInt(BShr(v.m, v.s))
FloatFrac(v) == [m |-> BLow(v.m, v.s), s |-> v.s]

\* v * 1000.0 for 0 <= v < 1: the product rounded to 53 bits.
RoundTo53(p, s, j) ==
  IF j <= 0 THEN [m |-> p, s |-> s]
  ELSE [m |-> RoundEven(BShr(p, j), 2 * (p[1] % Pow2(j)) > Pow2(j),
                        2 * (p[1] % Pow2(j)) = Pow2(j)),
        s |-> s - j]
Product(p, s) == RoundTo53(p, s, BBitLen(p) - 53)
FloatMul1000(v) == Product(BMulAdd(v.m, 1000, 0), v.s)

\* strconv.ParseFloat(part, 64): err is "nil" or the *NumError.
ParseFloat(part) ==
  LET dots == {i \in 1..Len(part) : part[i] = "."}
      dot == IF dots = {} THEN Len(part) + 1 ELSE CHOOSE i \in dots : TRUE
      ip == SubSeq(part, 1, dot - 1)
      fp == SubSeq(part, dot + 1, Len(part))
  IN  IF Cardinality(dots) > 1 \/ Len(part) = Cardinality(dots)
      THEN [err |-> "NumError", val |-> [m |-> <<>>, s |-> 0]]
      ELSE IF fp = <<>>
      THEN [err |-> "nil", val |-> [m |-> BFromDigits(ip), s |-> 0]]
      ELSE [err |-> "nil", val |-> DecToFloat(BFromDigits(ip \o fp), Len(fp))]

(***************************************************************************)
(* The two patterns.  Neither is anchored, so each finds its leftmost      *)
(* match anywhere in the input; every group of full is optional and is     *)
(* taken when it matches (Go's leftmost-first matching).                   *)
(***************************************************************************)
DigitSet == {DigitChars[i] : i \in 1..10}

\* Where the run of characters of cs that starts at p ends (first index
\* past it).
RunEnd(s, p, cs) ==
  CHOOSE q \in p..(Len(s) + 1) :
    /\ \A j \in p..(q - 1) : s[j] \in cs
    /\ (q = Len(s) + 1 \/ s[q] \notin cs)

\* A group "(cs+ des)" tried at p: its capture, and where matching goes on.
Group(s, p, cs, des) ==
  LET e == IF p > Len(s) THEN p ELSE RunEnd(s, p, cs)
  IN  IF e > p /\ e <= Len(s) /\ s[e] = des
      THEN [ok |-> TRUE, cap |-> SubSeq(s, p, e - 1), next |-> e + 1]
      ELSE [ok |-> FALSE, cap |-> <<>>, next |-> p]

Min(S) == CHOOSE x \in S : \A y \in S : x <= y

NoCaps ==
  [week |-> <<>>, year |-> <<>>, month |-> <<>>, day |-> <<>>,
   hour |-> <<>>, minute |-> <<>>, second |-> <<>>]

\* week = P((?P<week>\d+)W): MatchString and FindStringSubmatch.
week(s) ==
  LET at == {i \in 1..Len(s) : s[i] = "P" /\ Group(s, i + 1, DigitSet, "W").ok}
  IN  IF at = {} THEN [ok |-> FALSE, caps |-> NoCaps]
      ELSE [ok |-> TRUE,
            caps |-> [NoCaps EXCEPT !.week = Group(s, Min(at) + 1, DigitSet, "W").cap]]

\* full = P((?P<year>\d+)Y)?((?P<month>\d+)M)?((?P<day>\d+)D)?
\*        (T((?P<hour>\d+)H)?((?P<minute>\d+)M)?((?P<second>[\d\.]+)S)?)?
full(s) ==
  LET at == {i \in 1..Len(s) : s[i] = "P"}
      y == Group(s, Min(at) + 1, DigitSet, "Y")
      mo == Group(s, y.next, DigitSet, "M")
      dd == Group(s, mo.next, DigitSet, "D")
      hasT == dd.next <= Len(s) /\ s[dd.next] = "T"
      h == Group(s, dd.next + 1, DigitSet, "H")
      mi == Group(s, h.next, DigitSet, "M")
      se == Group(s, mi.next, DigitSet \cup {"."}, "S")
  IN  IF at = {} THEN [ok |-> FALSE, caps |-> NoCaps]
      ELSE [ok |-> TRUE,
            caps |-> [week |-> <<>>, year |-> y.cap, month |-> mo.cap, day |-> dd.cap,
                      hour |-> IF hasT THEN h.cap ELSE <<>>,
                      minute |-> IF hasT THEN mi.cap ELSE <<>>,
                      second |-> IF hasT THEN se.cap ELSE <<>>]]

(***************************************************************************)
(* The parser.                                                             *)
(***************************************************************************)
\* The named groups, in the order of re.SubexpNames().
SubexpNames(isWeek) ==
  IF isWeek THEN <<"week">>
  ELSE <<"year", "month", "day", "hour", "minute", "second">>

\* The seconds case: whole seconds, then three times the fraction times
\* 1000.0, truncated, as milli-, micro- and nanoseconds.
\* d += time.Duration(val) * u
AddUnits(d, val, u) == Add64(d, Mul64(FloatTrunc(val), u))
\* val = (val - math.Trunc(val)) * 1000.0
NextFrac(val) == FloatMul1000(FloatFrac(val))
AddNanos(d, val) == AddUnits(d, val, Nanosecond)
AddMicros(d, val) == AddNanos(AddUnits(d, val, Microsecond), NextFrac(val))
AddMillis(d, val) == AddMicros(AddUnits(d, val, Millisecond), NextFrac(val))
AddSeconds(d, val) == AddMillis(AddUnits(d, val, Second), NextFrac(val))

\* The switch on the group's name: d after the case, or the error.
UnitOf(name) ==
  CASE name = "year" -> Year
    [] name = "month" -> Month
    [] name = "week" -> Week
    [] name = "day" -> Day
    [] name = "hour" -> Hour
    [] name = "minute" -> Minute
Accumulate(d, name, val) ==
  IF name \in {"year", "month", "week", "day", "hour", "minute"}
  THEN [d |-> AddUnits(d, val, UnitOf(name)), err |-> "nil"]
  ELSE IF name = "second" THEN [d |-> AddSeconds(d, val), err |-> "nil"]
  ELSE [d |-> d, err |-> "unknown field"]

\* The loop over the groups from index i on, with d accumulated so far.
\* One pass of the loop's body on a non-empty part, pf being what
\* ParseFloat returned for it.
ParsePart(d, name, pf) ==
  IF pf.err # "nil" THEN [d |-> d, err |-> pf.err] ELSE Accumulate(d, name, pf.val)

RECURSIVE ParseLoop(_, _, _, _)
RECURSIVE LoopAfter(_, _, _, _)
ParseLoop(caps, names, i, d) ==
  IF i > Len(names) THEN [ok |-> TRUE, d |-> d, err |-> "nil"]
  ELSE IF caps[names[i]] = <<>> THEN ParseLoop(caps, names, i + 1, d)
  ELSE LoopAfter(caps, names, i, ParsePart(d, names[i], ParseFloat(caps[names[i]])))
\* The return inside the loop, or the next pass.
LoopAfter(caps, names, i, acc) ==
  IF acc.err # "nil" THEN [ok |-> FALSE, d |-> MagZero, err |-> acc.err]
  ELSE ParseLoop(caps, names, i + 1, acc.d)

ErrBadFormat == "ErrBadFormat"

\* [ok, d, err]: ok is whether a *Duration is returned (d is then its
\* value), err the error or "nil".
ParseMatch(isWeek, match) ==
  IF match.ok THEN ParseLoop(match.caps, SubexpNames(isWeek), 1, MagZero)
  ELSE [ok |-> FALSE, d |-> MagZero, err |-> ErrBadFormat]
ParseString(dur) ==
  ParseMatch(week(dur).ok, IF week(dur).ok THEN week(dur) ELSE full(dur))

(***************************************************************************)
(* JSON.  Strings here hold no character that JSON escapes, so encoding a  *)
(* string is quoting it (json.Encoder ends the value with a newline).      *)
(***************************************************************************)
Quote == "\""
Space == {" ", "\n", "\t", "\r"}

\* json.Decoder.Decode(&s) into a fresh string s: the first JSON value of
\* data.  A string literal sets s; null leaves it empty without an error;
\* any other value is an UnmarshalTypeError; no value is io.EOF; anything
\* else is a SyntaxError.
Decode(data) ==
  LET p == RunEnd(data, 1, Space)
      rest == {q \in (p + 1)..Len(data) : data[q] = Quote}
      word == SubSeq(data, p, RunEnd(data, p, {"n", "u", "l", "t", "r", "e", "f", "a", "s"}) - 1)
  IN  IF p > Len(data) THEN [err |-> "EOF", s |-> <<>>]
      ELSE IF data[p] = Quote
      THEN IF rest = {} THEN [err |-> "ErrUnexpectedEOF", s |-> <<>>]
           ELSE [err |-> "nil", s |-> SubSeq(data, p + 1, Min(rest) - 1)]
      ELSE IF word = <<"n", "u", "l", "l">> THEN [err |-> "nil", s |-> <<>>]
      ELSE IF \/ word \in {<<"t", "r", "u", "e">>, <<"f", "a", "l", "s", "e">>}
              \/ (word = <<>> /\ RunEnd(data, p, DigitSet) > p)
              \/ (p < Len(data) /\ SubSeq(data, p, p + 1) \in {<<"{", "}">>, <<"[", "]">>})
      THEN [err |-> "UnmarshalTypeError", s |-> <<>>]
      ELSE [err |-> "SyntaxError", s |-> <<>>]

\* [d, err]: the receiver after the call, and the error returned.
\* The assignment *d = *t made before the check of err.
AssignedEarly(d, t) == [d |-> t.d, err |-> t.err]

\* Lines 193-198: the receiver is assigned only when ParseString gave no error.
Assigned(d, t) ==
  IF t.err # "nil" THEN [d |-> d, err |-> t.err] ELSE [d |-> t.d, err |-> "nil"]
Decoded(d, dec) ==
  IF dec.err # "nil" THEN [d |-> d, err |-> dec.err]
  ELSE Assigned(d, ParseString(dec.s))
UnmarshalJSON(d, data) == Decoded(d, Decode(data))

MarshalJSON(d) == <<Quote>> \o String(d) \o <<Quote, "\n">>

(***************************************************************************)
(* The program: a Duration variable d of a caller, constructed by          *)
(* assigning a magnitude or by ParseString and then used through the       *)
(* accessors, String and the JSON methods.  Every step records the call it *)
(* made: op, its input and output text, the error returned, d as it was    *)
(* before the call (prev) and where d and prev came from.                  *)
(***************************************************************************)
VARIABLES d, prev, origin, prevOrigin, op, input, output, err, want, parts

vars == <<d, prev, origin, prevOrigin, op, input, output, err, want, parts>>

\* Bounds of the model: week counts 0..MaxWeeks and year fields up to
\* MaxYears are tried.
MaxWeeks == 53
MaxYears == 293

\* Magnitudes assigned directly (Duration{time.Duration(x)}).
Magnitudes ==
  {MulExact(n, Week) : n \in 0..MaxWeeks}
  \cup {MagNeg(Hour), MagNeg(Day), MagNeg(Week), MagNeg(Nanosecond),
        MaxInt64, MinInt64, Nanosecond,
        Mag(0, 0, 50000), Mag(0, 0, 99999), Mag(0, 0, 100000),
        Mag(0, 1, 500000000), Mag(0, 1, 1000000), Mag(0, 59, 999999999),
        Day, Month, Year, MagAdd(Year, Week), MagAdd(Year, MulExact(35, Day)),
        Mag(1, 7384, 0), Mag(104, 21599, 254740993),
        Mag(182, 3839, 999999999), Mag(364, 7739, 999999997)}

\* Texts given to ParseString.
Inputs ==
  {<<"P", "0", "D">>, <<"P", "7", "D">>, <<"P", "1", "M", "5", "D">>, <<"P", "1", "Y", "1", "M", "5", "D">>,
   <<"P", "1", "M">>, <<"P", "T", "1", ".", "5", "S">>, <<"P", "1", "D", "T", "2", "H", "3", "M", "4", "S">>, <<"P", "2", "W">>,
   <<"P", "1", "Y", "2", "M", "3", "D", "T", "4", "H", "5", "M", "6", ".", "5", "S">>, <<"P", "T", "1", ".", "0", "0", "1", "S">>, <<"P", "T", "0", ".", "0", "0", "0", "0", "5", "S">>, <<"P", "2", "9", "2", "Y">>,
   <<"P", "2", "9", "3", "Y">>, <<"P", "1", "5", "2", "5", "1", "W">>, <<>>, <<"g", "a", "r", "b", "a", "g", "e">>,
   <<"P">>, <<"P", "T">>, <<"P", "1", "W", "2", "D">>, <<"x", "P", "1", "D">>,
   <<"P", "1", "D", "x">>, <<"P", "1", "D", "2", "W">>, <<"P", "T", "1", ".", "2", ".", "3", "S">>, <<"P", "T", ".", "S">>,
   <<"P", "1", "D", "T">>}

\* Bytes given to UnmarshalJSON.
JSONInputs ==
  {<<"\"", "P", "1", "D", "\"">>, <<"\"", "P", "5", "W", "\"">>, <<"\"", "P", "T", "1", ".", "5", "S", "\"">>,
   <<"\"", "g", "a", "r", "b", "a", "g", "e", "\"">>, <<"\"", "\"">>, <<"\"", "P", "1", "W", "2", "D", "\"">>,
   <<"\"", "P", "T", "1", ".", "2", ".", "3", "S", "\"">>, <<"n", "u", "l", "l">>, <<"1", "2", "3">>,
   <<"{", "}">>, <<>>, <<"P", "1", "D">>,
   <<"\"", "P", "1", "D">>, <<"t", "r", "u", "e">>, <<" ", "\"", "P", "2", "D", "T", "3", "H", "\"", "\n">>}

\* Field values of the forms built for ParseString; <<>> is a field left
\* out, <<n>> a field written n.
YearVals == {<<>>, <<1>>, <<MaxYears - 1>>, <<MaxYears>>}
MonthVals == {<<>>, <<1>>}
DayVals == {<<>>, <<0>>, <<5>>}
HourVals == {<<>>, <<2>>}
MinuteVals == {<<>>, <<3>>}
SecondVals == {<<>>, <<4>>}
WeekVals == (0..MaxWeeks) \cup {15250, 15251}

Field(f, des) == IF f = <<>> THEN <<>> ELSE Digits(f[1]) \o <<des>>

\* P[aY][bM][cD][T[eH][fM][gS]] of the fields.
FullForm(a, b, c, e, f, g) ==
  <<"P">> \o Field(a, "Y") \o Field(b, "M") \o Field(c, "D")
  \o (IF e = <<>> /\ f = <<>> /\ g = <<>> THEN <<>>
      ELSE <<"T">> \o Field(e, "H") \o Field(f, "M") \o Field(g, "S"))

WeekForm(n) == <<"P">> \o Digits(n) \o <<"W">>

\* What the fields add up to, in the integers.
Times(f, u) == IF f = <<>> THEN MagZero ELSE MulExact(f[1], u)
FullSum(a, b, c, e, f, g) ==
  MagAdd(MagAdd(MagAdd(Times(a, Year), Times(b, Month)), Times(c, Day)),
         MagAdd(MagAdd(Times(e, Hour), Times(f, Minute)), Times(g, Second)))

NoParts == [years |-> 0, weeks |-> [num |-> 0, den |-> 7], days |-> 0,
            hours |-> 0, minutes |-> 0, seconds |-> MagZero]
NoWant == [known |-> FALSE, sum |-> MagZero]

\* The calls of ParseString tried in the state: on a first call the texts
\* of Inputs and the built forms, each with the sum of its fields where the
\* form gives one, and after String the text that String returned.
Requests ==
  IF op = "init"
  THEN [text : Inputs, want : {NoWant}]
       \cup {[text |-> FullForm(a, b, c, e, f, g),
              want |-> [known |-> TRUE, sum |-> FullSum(a, b, c, e, f, g)]] :
             a \in YearVals, b \in MonthVals, c \in DayVals,
             e \in HourVals, f \in MinuteVals, g \in SecondVals}
       \cup {[text |-> WeekForm(n),
              want |-> [known |-> TRUE, sum |-> MulExact(n, Week)]] : n \in WeekVals}
  ELSE IF op = "string" THEN {[text |-> output, want |-> NoWant]}
  ELSE {}

\* The bytes given to UnmarshalJSON in the state: those of JSONInputs, and
\* after MarshalJSON the bytes it returned.
Payloads ==
  IF op = "marshal" THEN JSONInputs \cup {output}
  ELSE IF op \in {"assign", "parse"} THEN JSONInputs
  ELSE {}

Init ==
  /\ d = MagZero
  /\ prev = MagZero
  /\ origin = "zero"
  /\ prevOrigin = "zero"
  /\ op = "init"
  /\ input = <<>>
  /\ output = <<>>
  /\ err = "nil"
  /\ want = NoWant
  /\ parts = NoParts

\* d = Duration{m}
Assign(m) ==
  /\ op = "init"
  /\ d' = m
  /\ origin' = "assigned"
  /\ op' = "assign"
  /\ prev' = d /\ prevOrigin' = origin
  /\ input' = <<>> /\ output' = <<>> /\ err' = "nil"
  /\ want' = NoWant /\ parts' = NoParts

\* t, err := ParseString(s); if err == nil { d = *t }
\* (op "reparse" when s is what d.String() just returned).
Parse(s, sum) ==
  /\ d' = IF ParseString(s).ok THEN ParseString(s).d ELSE d
  /\ origin' = IF ParseString(s).ok THEN "parsed" ELSE origin
  /\ err' = ParseString(s).err
  /\ op' = IF op = "string" THEN "reparse" ELSE "parse"
  /\ prev' = d /\ prevOrigin' = origin
  /\ input' = s /\ output' = <<>>
  /\ want' = sum /\ parts' = NoParts

\* The accessors, read off d.
Inspect ==
  /\ op # "inspect"
  /\ parts' = [years |-> Years(d), weeks |-> Weeks(d), days |-> Days(d),
               hours |-> Hours(d), minutes |-> Minutes(d), seconds |-> Seconds(d)]
  /\ op' = "inspect"
  /\ prev' = d /\ prevOrigin' = origin
  /\ input' = <<>> /\ output' = <<>> /\ err' = "nil" /\ want' = NoWant
  /\ UNCHANGED <<d, origin>>

\* output = d.String()
\* (op "restring" when d was just parsed from an earlier d.String(), which
\* input then still holds).
Format ==
  /\ op \notin {"string", "restring"}
  /\ output' = String(d)
  /\ op' = IF op = "reparse" /\ err = "nil" THEN "restring" ELSE "string"
  /\ input' = IF op = "reparse" /\ err = "nil" THEN input ELSE <<>>
  /\ prev' = d /\ prevOrigin' = origin
  /\ err' = "nil" /\ want' = NoWant /\ parts' = NoParts
  /\ UNCHANGED <<d, origin>>

\* output, _ = d.MarshalJSON()
Marshal ==
  /\ op # "marshal"
  /\ output' = MarshalJSON(d)
  /\ op' = "marshal"
  /\ prev' = d /\ prevOrigin' = origin
  /\ input' = <<>> /\ err' = "nil" /\ want' = NoWant /\ parts' = NoParts
  /\ UNCHANGED <<d, origin>>

\* err = d.UnmarshalJSON(data)
\* (op "unmarshalown" when data is what d.MarshalJSON() just returned).
Unmarshal(data) ==
  /\ d' = UnmarshalJSON(d, data).d
  /\ err' = UnmarshalJSON(d, data).err
  /\ origin' = IF UnmarshalJSON(d, data).err = "nil" THEN "parsed" ELSE origin
  /\ op' = IF op = "marshal" /\ data = output THEN "unmarshalown" ELSE "unmarshal"
  /\ prev' = d /\ prevOrigin' = origin
  /\ input' = data /\ output' = <<>>
  /\ want' = NoWant /\ parts' = NoParts

Next ==
  \/ \E m \in Magnitudes : Assign(m)
  \/ \E r \in Requests : Parse(r.text, r.want)
  \/ Inspect
  \/ Format
  \/ Marshal
  \/ \E data \in Payloads : Unmarshal(data)

Spec == Init /\ [][Next]_vars

(***************************************************************************)
(* The vocabulary of the properties: the grammar of a duration text, taken *)
(* over the whole text, and the shape of a JSON string.                    *)
(***************************************************************************)
\* P<n>W, the whole text.
IsWeekForm(s) ==
  /\ Len(s) >= 3
  /\ s[1] = "P"
  /\ s[Len(s)] = "W"
  /\ \A i \in 2..(Len(s) - 1) : s[i] \in DigitSet

\* The full form read from the first character on: whether it takes the
\* whole text, and which designators it found.
WholeForm(s) ==
  LET y == Group(s, 2, DigitSet, "Y")
      mo == Group(s, y.next, DigitSet, "M")
      dd == Group(s, mo.next, DigitSet, "D")
      hasT == dd.next <= Len(s) /\ s[dd.next] = "T"
      h == Group(s, dd.next + 1, DigitSet, "H")
      mi == Group(s, h.next, DigitSet, "M")
      se == Group(s, mi.next, DigitSet \cup {"."}, "S")
  IN  [whole |-> /\ Len(s) >= 1
                 /\ s[1] = "P"
                 /\ (IF hasT THEN se.next ELSE dd.next) = Len(s) + 1,
       date |-> y.ok \/ mo.ok \/ dd.ok,
       month |-> mo.ok,
       hasT |-> hasT,
       time |-> hasT /\ (h.ok \/ mi.ok \/ se.ok),
       second |-> IF hasT THEN se.cap ELSE <<>>]

\* An accepted form over the entire length, with a captured designator.
WellFormed(s) ==
  \/ IsWeekForm(s)
  \/ (WholeForm(s).whole /\ (WholeForm(s).date \/ WholeForm(s).time))

\* Digits, with an optional fraction.
Decimal(c) ==
  /\ c # <<>>
  /\ Cardinality({i \in 1..Len(c) : c[i] = "."}) <= 1
  /\ c[1] # "."
  /\ c[Len(c)] # "."

\* P0D, P<n>W or P[<n>Y][<n>D][T[<n>H][<n>M][<n>S]].
ValidString(s) ==
  \/ s = Zero
  \/ IsWeekForm(s)
  \/ /\ WholeForm(s).whole
     /\ WholeForm(s).date \/ WholeForm(s).time
     /\ WholeForm(s).hasT => WholeForm(s).time
     /\ ~WholeForm(s).month
     /\ WholeForm(s).second # <<>> => Decimal(WholeForm(s).second)

\* data is a JSON string, and the string it writes.
IsStringLiteral(data) ==
  LET p == RunEnd(data, 1, Space)
  IN  /\ p < Len(data)
      /\ data[p] = Quote
      /\ \E q \in (p + 1)..Len(data) : data[q] = Quote
Literal(data) ==
  LET p == RunEnd(data, 1, Space)
  IN  SubSeq(data, p + 1, Min({q \in (p + 1)..Len(data) : data[q] = Quote}) - 1)

\* UnmarshalJSON's failures: no string, or a string ParseString rejects.
Rejected(data) ==
  IsStringLiteral(data) => ParseString(Literal(data)).err # "nil"

\* The parts of Inspect put together again, in the integers.
Recomposed(p) ==
  MagAdd(MagAdd(MulExact(p.years, Year), MulExact(p.days, Day)),
         MagAdd(MagAdd(MulExact(p.hours, Hour), MulExact(p.minutes, Minute)),
                p.seconds))

(***************************************************************************)
(* The properties.                                                         *)
(***************************************************************************)
\* C1: for every magnitude d, with s = d.String(), ParseString(s) succeeds
\* and ParseString(s).String() is s again.
C1_RoundTrip ==
  /\ op = "reparse" => err = "nil"
  /\ op = "restring" => output = input

\* C2: for every d that a successful ParseString returned, UnmarshalJSON of
\* the bytes of d.MarshalJSON() succeeds and leaves the receiver equal to d.
C2_JSONRoundTrip ==
  (op = "unmarshalown" /\ prevOrigin = "parsed") => (err = "nil" /\ d = prev)

\* C3: ParseString of a full form with whole-number fields, or of the week
\* form, returns the sum of the fields times the fixed unit sizes (year =
\* 365 days, month = 30 days, week = 7 days, day = 24 h).
C3_UnitSizes ==
  (op = "parse" /\ want.known) => (err = "nil" /\ d = want.sum)

\* C4: ParseString fails with ErrBadFormat, returning no Duration, for
\* every input that is not, over its entire length, the week form or the
\* full form with at least one designator.
C4_BadFormat ==
  (op = "parse" /\ ~WellFormed(input)) => (err = ErrBadFormat /\ origin = "zero")

\* C5: String() returns exactly P<n>W when the magnitude is n weeks for an
\* n in 1..52, and for every other magnitude its output holds no W.
C5_WeekCollapsing ==
  op \in {"string", "restring"} =>
    IF \E n \in 1..52 : d = MulExact(n, Week)
    THEN \E n \in 1..52 : d = MulExact(n, Week) /\ output = WeekForm(n)
    ELSE \A i \in 1..Len(output) : output[i] # "W"

\* C6: for every magnitude String() returns a syntactically valid duration
\* text: P0D exactly when the magnitude is zero, or P<n>W, or
\* P[<n>Y][<n>D][T[<n>H][<n>M][<n>S]] with a designator present, a time
\* designator after any T, plain unsigned decimal numbers and no month.
C6_ValidString ==
  op \in {"string", "restring"} =>
    (ValidString(output) /\ (output = Zero <=> d = MagZero))

\* C7: UnmarshalJSON returns a non-nil error and leaves the receiver's
\* magnitude as it was whenever the JSON value is not a string or
\* ParseString rejects the string; the receiver changes only when decoding
\* and parsing both succeed.
C7_UnmarshalAtomic ==
  op \in {"unmarshal", "unmarshalown"} =>
    /\ Rejected(input) => (err # "nil" /\ d = prev)
    /\ d # prev => (err = "nil" /\ ~Rejected(input))

\* A failed UnmarshalJSON on a receiver that held a non-zero magnitude.
C7_Witness ==
  /\ op = "unmarshal"
  /\ Rejected(input)
  /\ err # "nil"
  /\ prev # MagZero
  /\ d = prev

\* C8: for every non-negative magnitude d the accessors decompose d
\* exactly: Years*365 days + Days*24 h + Hours*1 h + Minutes*1 min +
\* Seconds*1 s is d, with Days below 365, Hours below 24, Minutes and
\* Seconds below 60 and none negative.
C8_Decomposition ==
  (op = "inspect" /\ ~MagIsNeg(d)) =>
    /\ Recomposed(parts) = d
    /\ parts.days >= 0 /\ parts.days < 365
    /\ parts.hours >= 0 /\ parts.hours < 24
    /\ parts.minutes >= 0 /\ parts.minutes < 60
    /\ ~MagIsNeg(parts.seconds) /\ MagLt(parts.seconds, Minute)

\* C9: for every Duration, parsed or assigned a signed magnitude, each of
\* Years, Weeks, Days, Hours, Minutes and Seconds is non-negative.
C9_NonNegative ==
  op = "inspect" =>
    /\ parts.years >= 0
    /\ parts.weeks.num >= 0
    /\ parts.days >= 0
    /\ parts.hours >= 0
    /\ parts.minutes >= 0
    /\ ~MagIsNeg(parts.seconds)

\* C10: ParseString never returns a wrapped-around magnitude: for every
\* input it accepts the magnitude returned is non-negative, and is the sum
\* of the fields where the input is a built form.
C10_NoWrap ==
  (op \in {"parse", "reparse"} /\ err = "nil") =>
    (~MagIsNeg(d) /\ (want.known => d = want.sum))

====
